---- MODULE Spec2Model ----
(***************************************************************************)
(* A model of encrust's bounded-concurrency scheduler, parallel() in       *)
(* _spawnutil.py, and of the wheel reconciliation pass that drives it,     *)
(* fixArchitectures() in _architecture.py.                                 *)
(*                                                                         *)
(* Everything runs on one reactor thread.  A step of the model is a piece  *)
(* of code between two suspension points (an await on an unfired Deferred, *)
(* or a yield of the async generator).                                     *)
(***************************************************************************)
EXTENDS Integers, Sequences, FiniteSets, TLC

\* Bounds of the model.
MaxUnits == 4
MaxN == 3
MaxWheels == 4
MaxBytes == 2
MaxFiles == 2

\* parallel(work, parallelism=10)
DefaultParallelism == 10

\* findSingleArchitectureBinaries: parallel(..., 16)
ScanParallelism == 16

VARIABLES
    work,         \* the units handed to parallel(), in submission order
    parallelism,  \* the limit handed to parallel()
    tokens,       \* sem.tokens of the DeferredSemaphore
    values,       \* the deque of results not yet yielded
    pc,           \* where the parallel() generator is
    loop,         \* which of the two loops of parallel() runs drain(): "work" / "range"
    w,            \* index in work of the unit fetched by `for w in work`
    x,            \* number of iterations of `for x in range(parallelism)` begun
    ustate,       \* per unit: "unstarted", "running", "done", "failed"
    out,          \* results the consumer has received, in order
    completed,    \* units in the order their coroutine ended (result or exception)
    unhandled,    \* failures left in the discarded Deferred of saveAndRelease
    fpc,          \* where fixArchitectures() is
    downloadDir,  \* wheels in .wheels/downloaded
    children,     \* FilePath(downloadDir).children() not yet looked at
    tmpDir,       \* wheels in .wheels/tmp
    fusedDir,     \* wheels in .wheels/fused
    needsFusing,  \* the defaultdict (project, version) -> FusedPair
    invoked,      \* command lines handed to spawnProcess, in order
    raised,       \* the exception that left fixArchitectures(), or "none"
    ipc,          \* where Invocation.__call__ is
    ioutput,      \* ipp.output
    ierrors,      \* ipp.errors
    iexit,        \* the exit code handed to processEnded, -1 before it
    iresult,      \* what Invocation.__call__ returned or raised
    rpc,          \* where release() / fattenEnvironment() / validateArchitectures() is
    success,      \* the local `success` of validateArchitectures()
    found,        \* paths findSingleArchitectureBinaries() has yielded
    scans         \* the validations that have returned, in order

schedVars == <<work, parallelism, tokens, values, pc, loop, w, x, ustate, out,
               completed, unhandled>>
fixVars == <<fpc, downloadDir, children, tmpDir, fusedDir, needsFusing, invoked, raised>>
invVars == <<ipc, ioutput, ierrors, iexit, iresult>>
relVars == <<rpc, success, found, scans>>
vars == <<work, parallelism, tokens, values, pc, loop, w, x, ustate, out,
          completed, unhandled,
          fpc, downloadDir, children, tmpDir, fusedDir, needsFusing, invoked,
          raised, ipc, ioutput, ierrors, iexit, iresult, rpc, success, found,
          scans>>

Range(s) == {s[i] : i \in DOMAIN s}

InFlight == {i \in DOMAIN ustate : ustate[i] = "running"}

(***************************************************************************)
(* twisted.internet.defer.DeferredSemaphore, as parallel() uses it.  The   *)
(* generator is the only caller of acquire(), so sem.waiting holds at most *)
(* its one Deferred: pc = "waiting".                                       *)
(***************************************************************************)

\* Mutation: a semaphore built with one token too many.
DeferredSemaphoreExtra(n) == n + 1

\* sem = DeferredSemaphore(parallelism): the initial number of tokens.
DeferredSemaphore(n) == n

\* Mutation: acquire() that never parks the caller.
SemAcquireNoWait ==
    /\ pc = "acquire"
    /\ tokens' = IF tokens > 0 THEN tokens - 1 ELSE tokens
    /\ pc' = "while"
    /\ UNCHANGED <<work, parallelism, values, loop, w, x, ustate, out,
                   completed, unhandled>>

\* drain(): await sem.acquire().  A token is taken if there is one, or the
\* generator is parked in sem.waiting.
SemAcquire ==
    /\ pc = "acquire"
    /\ IF tokens > 0
         THEN tokens' = tokens - 1 /\ pc' = "while"
         ELSE tokens' = tokens /\ pc' = "waiting"
    /\ UNCHANGED <<work, parallelism, values, loop, w, x, ustate, out,
                   completed, unhandled>>

\* Mutation: release() that forgets the Deferred in sem.waiting.
SemReleaseNoWake(tok, p) == [tokens |-> tok + 1, pc |-> p]

\* sem.release(): the token goes to the parked generator, which resumes in
\* drain(), or back to the semaphore.
SemRelease(tok, p) ==
    IF p = "waiting" THEN [tokens |-> tok, pc |-> "while"]
                     ELSE [tokens |-> tok + 1, pc |-> p]

(***************************************************************************)
(* parallel()                                                              *)
(***************************************************************************)

\* for w in work: fetch the next unit, or fall through to the second loop.
ForWork ==
    /\ pc = "for_w"
    /\ IF w < Len(work)
         THEN w' = w + 1 /\ pc' = "acquire" /\ loop' = "work"
         ELSE w' = w /\ pc' = "for_x" /\ loop' = "range"
    /\ UNCHANGED <<work, parallelism, tokens, values, x, ustate, out,
                   completed, unhandled>>

\* Mutation: a second loop of one round, range(1).
ForRangeOnce ==
    /\ pc = "for_x"
    /\ IF x < 1
         THEN x' = x + 1 /\ pc' = "acquire"
         ELSE x' = x /\ pc' = "done"
    /\ UNCHANGED <<work, parallelism, tokens, values, loop, w, ustate, out,
                   completed, unhandled>>

\* for x in range(parallelism): one more drain(), or the generator ends.
ForRange ==
    /\ pc = "for_x"
    /\ IF x < parallelism
         THEN x' = x + 1 /\ pc' = "acquire"
         ELSE x' = x /\ pc' = "done"
    /\ UNCHANGED <<work, parallelism, tokens, values, loop, w, ustate, out,
                   completed, unhandled>>

\* Mutation: drain() taking the newest value, values.pop().
DrainYieldNewest ==
    /\ pc = "while"
    /\ values # <<>>
    /\ out' = Append(out, values[Len(values)])
    /\ values' = SubSeq(values, 1, Len(values) - 1)
    /\ pc' = "yielded"
    /\ UNCHANGED <<work, parallelism, tokens, loop, w, x, ustate,
                   completed, unhandled>>

\* while values: yield values.popleft().  The value reaches the consumer and
\* the generator stays suspended at the yield.
DrainYield ==
    /\ pc = "while"
    /\ values # <<>>
    /\ out' = Append(out, Head(values))
    /\ values' = Tail(values)
    /\ pc' = "yielded"
    /\ UNCHANGED <<work, parallelism, tokens, loop, w, x, ustate,
                   completed, unhandled>>

\* The consumer's `async for` asks for the next value: the generator resumes
\* at the test of `while values`.
Pull ==
    /\ pc = "yielded"
    /\ pc' = "while"
    /\ UNCHANGED <<work, parallelism, tokens, values, loop, w, x, ustate, out,
                   completed, unhandled>>

\* `while values` finds the deque empty: drain() ends, and the loop that ran
\* it goes on.
DrainEnd ==
    /\ pc = "while"
    /\ values = <<>>
    /\ pc' = IF loop = "work" THEN "start" ELSE "for_x"
    /\ UNCHANGED <<work, parallelism, tokens, values, loop, w, x, ustate, out,
                   completed, unhandled>>

\* Deferred.fromCoroutine(saveAndRelease(w)) for a unit that suspends: the
\* unit is now in flight and the returned Deferred is dropped.
StartUnit ==
    /\ pc = "start"
    /\ work[w].kind = "unit"
    /\ ustate' = [ustate EXCEPT ![w] = "running"]
    /\ pc' = "for_w"
    /\ UNCHANGED <<work, parallelism, tokens, values, loop, w, x, out,
                   completed, unhandled>>

\* saveAndRelease: `await coro` returns; values.append(...), then the finally
\* clause releases the semaphore.
SaveAndReleaseOk(i) ==
    /\ ustate[i] = "running"
    /\ ustate' = [ustate EXCEPT ![i] = "done"]
    /\ values' = Append(values, i)
    /\ completed' = Append(completed, i)
    /\ tokens' = SemRelease(tokens, pc).tokens
    /\ pc' = SemRelease(tokens, pc).pc
    /\ UNCHANGED <<work, parallelism, loop, w, x, out, unhandled>>

\* Mutation: saveAndRelease without the finally clause.
SaveAndReleaseNoFinally(i, err) ==
    /\ ustate[i] = "running"
    /\ ustate' = [ustate EXCEPT ![i] = "failed"]
    /\ completed' = Append(completed, i)
    /\ unhandled' = unhandled \cup {[unit |-> i, error |-> err]}
    /\ UNCHANGED <<work, parallelism, tokens, pc, values, loop, w, x, out>>

\* saveAndRelease: `await coro` raises; nothing is appended, the finally
\* clause releases the semaphore and the exception ends up as the failure of
\* the Deferred that parallel() dropped.
SaveAndReleaseRaise(i, err) ==
    /\ ustate[i] = "running"
    /\ ustate' = [ustate EXCEPT ![i] = "failed"]
    /\ completed' = Append(completed, i)
    /\ unhandled' = unhandled \cup {[unit |-> i, error |-> err]}
    /\ tokens' = SemRelease(tokens, pc).tokens
    /\ pc' = SemRelease(tokens, pc).pc
    /\ UNCHANGED <<work, parallelism, values, loop, w, x, out>>

\* An exception, as what its message says: the text, the architecture and
\* the project it names.
Error(text, arch, name) == [text |-> text, arch |-> arch, name |-> name]

\* A unit of work that is some coroutine: it returns ...
UnitReturns ==
    /\ \E i \in InFlight : work[i].kind = "unit" /\ SaveAndReleaseOk(i)
    /\ UNCHANGED fixVars
    /\ UNCHANGED <<invVars, relVars>>

\* ... or raises.
UnitRaises ==
    /\ \E i \in InFlight :
          work[i].kind = "unit"
          /\ SaveAndReleaseRaise(i, Error("RuntimeError", "none", "unit"))
    /\ UNCHANGED fixVars
    /\ UNCHANGED <<invVars, relVars>>

Scheduler ==
    /\ \/ ForWork
       \/ SemAcquire
       \/ DrainYield
       \/ DrainEnd
       \/ ForRange
    /\ UNCHANGED fixVars
    /\ UNCHANGED <<invVars, relVars>>

Consumer == Pull /\ UNCHANGED fixVars /\ UNCHANGED <<invVars, relVars>>

Start == StartUnit /\ UNCHANGED fixVars /\ UNCHANGED <<invVars, relVars>>

\* parallel(work, n) has been called and has not run yet.
Called(wk, n) ==
    /\ work = wk
    /\ parallelism = n
    /\ tokens = DeferredSemaphore(n)
    /\ values = <<>>
    /\ pc = "for_w"
    /\ loop = "work"
    /\ w = 0
    /\ x = 0
    /\ ustate = [i \in DOMAIN wk |-> "unstarted"]
    /\ out = <<>>
    /\ completed = <<>>
    /\ unhandled = {}

\* No Invocation is being run.
NoInvocation ==
    /\ ipc = "none"
    /\ ioutput = <<>>
    /\ ierrors = <<>>
    /\ iexit = -1
    /\ iresult = [type |-> "none"]

\* release() has not been called.
NoRelease ==
    /\ rpc = "none"
    /\ success = TRUE
    /\ found = {}
    /\ scans = <<>>

NoFix ==
    /\ fpc = "none"
    /\ downloadDir = {}
    /\ children = {}
    /\ tmpDir = {}
    /\ fusedDir = {}
    /\ needsFusing = <<>>
    /\ invoked = <<>>
    /\ raised = "none"

\* parallel() over any work of up to MaxUnits units with any limit up to MaxN.
Init ==
    /\ \E k \in 0..MaxUnits, n \in 1..MaxN :
          Called([i \in 1..k |-> [kind |-> "unit"]], n)
    /\ NoFix
    /\ NoInvocation
    /\ NoRelease

Next ==
    \/ Scheduler
    \/ Start
    \/ Consumer
    \/ UnitReturns
    \/ UnitRaises

Spec == Init /\ [][Next]_vars

\* Every started unit ends, the consumer keeps iterating, the reactor runs.
FairSpec ==
    /\ Init
    /\ [][Next]_vars
    /\ WF_vars(Scheduler)
    /\ WF_vars(Start)
    /\ WF_vars(Consumer)
    /\ WF_vars(UnitReturns \/ UnitRaises)

(***************************************************************************)
(* Wheel file names.  A name is kept as the fields parse_wheel_filename    *)
(* finds in it; a platform tag is the sequence of its pieces between       *)
(* underscores, so macosx_10_9_x86_64 is <<"macosx","10","9","x86","64">>. *)
(***************************************************************************)

TagArm64 == <<"macosx", "11", "0", "arm64">>
TagX86_64 == <<"macosx", "10", "9", "x86", "64">>
TagUniversal2 == <<"macosx", "10", "9", "universal2">>
TagLinux == <<"linux", "x86", "64">>
TagAny == <<"any">>
TagIntel == <<"macosx", "10", "9", "intel">>

\* A wheel of version 1.0; its python tag is py3 where the ABI tag is none
\* and else the ABI tag.
WheelFile(project, abi, plats) ==
    [project |-> project, version |-> "1.0",
     python |-> IF abi = <<"none">> THEN <<"py3">> ELSE abi,
     abi |-> abi, plats |-> plats]

\* The wheels `pip wheel` may leave in the download directory.
Catalogue ==
    { WheelFile("foo", <<"cp310">>, <<TagArm64>>),
      WheelFile("foo", <<"cp310">>, <<TagX86_64>>),
      WheelFile("foo", <<"cp310">>, <<TagUniversal2>>),
      WheelFile("six", <<"none">>, <<TagAny>>),
      WheelFile("odd", <<"cp310">>, <<TagLinux>>),
      WheelFile("foo", <<"cp311">>, <<TagArm64>>),
      WheelFile("bar", <<"cp310">>, <<TagX86_64, TagIntel>>),
      WheelFile("x_arm64.whl", <<"cp310">>, <<TagArm64>>),
      WheelFile("x_arm64.whl", <<"cp310">>, <<TagX86_64>>),
      WheelFile("x_universal2.whl", <<"cp310">>, <<TagArm64>>),
      WheelFile("x_universal2.whl", <<"cp310">>, <<TagX86_64>>) }

\* class KnownArchitecture(StrEnum): the values auto() gives the members.
KnownArchitecture ==
    { <<"x86", "64">>, <<"arm64">>, <<"universal2">>, <<"purepython">> }

purePython == <<"purepython">>

\* What specifics and wheelNameArchitecture raise.
ValueError == <<"ValueError">>

\* int(major), int(minor) succeed.
IsInt(piece) == piece \in {"0", "9", "10", "11"}

\* tag.split("_", 3): at most three splits, the rest stays one field.
Split3(tag) ==
    IF Len(tag) <= 4 THEN [i \in 1..Len(tag) |-> <<tag[i]>>]
    ELSE <<<<tag[1]>>, <<tag[2]>>, <<tag[3]>>, SubSeq(tag, 4, Len(tag))>>

\* specifics(pwf): one entry per platform tag that splits in four and ends in
\* a known architecture; ValueError where int() raises.
RECURSIVE specifics(_)
specifics(plats) ==
    IF plats = <<>> THEN <<>>
    ELSE LET splitted == Split3(Head(plats))
             rest == specifics(Tail(plats))
         IN  IF Len(splitted) # 4 THEN rest
             ELSE IF splitted[4] \notin KnownArchitecture THEN rest
             ELSE IF ~(IsInt(splitted[2][1]) /\ IsInt(splitted[3][1]))
                    THEN <<ValueError>> \o rest
             ELSE <<splitted[4]>> \o rest

\* wheelNameArchitecture(pwf): the architecture, or ValueError.
wheelNameArchitecture(pwf) ==
    IF pwf.abi = <<"none">> /\ pwf.plats = <<TagAny>> THEN purePython
    ELSE LET allSpecifics == specifics(pwf.plats)
         IN  IF ValueError \in Range(allSpecifics) THEN ValueError
             ELSE IF Len(allSpecifics) # 1 THEN ValueError
             ELSE allSpecifics[1]

\* sep.join(pieces)
RECURSIVE join(_, _)
join(pieces, sep) ==
    IF pieces = <<>> THEN ""
    ELSE IF Len(pieces) = 1 THEN pieces[1]
    ELSE pieces[1] \o sep \o join(Tail(pieces), sep)

\* s.find(sub), counted from 1: where sub first occurs in s, 0 where it does
\* not.
find(s, sub) ==
    LET hits == {i \in 1..(Len(s) - Len(sub) + 1) :
                   SubSeq(s, i, i + Len(sub) - 1) = sub}
    IN  IF hits = {} THEN 0 ELSE CHOOSE i \in hits : \A j \in hits : i <= j

\* s.split(sep)
RECURSIVE split(_, _)
split(s, sep) ==
    LET i == find(s, sep)
    IN  IF i = 0 THEN <<s>>
        ELSE <<SubSeq(s, 1, i - 1)>>
             \o split(SubSeq(s, i + Len(sep), Len(s)), sep)

\* s.replace(old, new): every occurrence, from the left.
RECURSIVE replace(_, _, _)
replace(s, old, new) ==
    LET i == find(s, old)
    IN  IF i = 0 THEN s
        ELSE SubSeq(s, 1, i - 1) \o new
             \o replace(SubSeq(s, i + Len(old), Len(s)), old, new)

\* FilePath.basename() of a wheel: the text of its name,
\* project-version-python-abi-platform.whl.
basename(wheel) ==
    join(<<wheel.project, wheel.version, join(wheel.python, "."),
           join(wheel.abi, "."),
           join([i \in DOMAIN wheel.plats |-> join(wheel.plats[i], "_")],
                ".")>>, "-") \o ".whl"

\* parse_wheel_filename(name) for a name without a build tag: the fields
\* between the dashes of the name less its .whl, the tags between the dots.
parse_wheel_filename(name) ==
    LET fields == split(SubSeq(name, 1, Len(name) - 4), "-")
        tags == split(fields[5], ".")
    IN  [project |-> fields[1], version |-> fields[2],
         python |-> split(fields[3], "."), abi |-> split(fields[4], "."),
         plats |-> [i \in DOMAIN tags |-> split(tags[i], "_")]]

\* left.basename().replace("_arm64.whl", "_universal2.whl"), as the wheel
\* that name is the name of.
ReplaceArm64(name) ==
    parse_wheel_filename(
        replace(basename(name), "_arm64.whl", "_universal2.whl"))

(***************************************************************************)
(* fixArchitectures()                                                      *)
(***************************************************************************)

\* None, where a path is expected.
None == [path |-> "None"]

\* class FusedPair, with every slot at its default.
FusedPair == [arm64 |-> None, x86_64 |-> None, universal2 |-> None]

\* needsFusing is a dict: a sequence of entries in insertion order.
HasKey(d, key) == \E i \in DOMAIN d : d[i].key = key

\* needsFusing[key], which inserts FusedPair() for a key that is new.
WithKey(d, key) ==
    IF HasKey(d, key) THEN d ELSE Append(d, [key |-> key, fusor |-> FusedPair])

IndexOf(d, key) == CHOOSE i \in DOMAIN d : d[i].key = key

\* A command that exits non-zero raises RuntimeError out of
\* fixArchitectures(); one that exits 0 lets it go on.
Await(code, nextpc) ==
    /\ fpc' = IF code = 0 THEN nextpc ELSE "aborted"
    /\ raised' = IF code = 0 THEN raised ELSE "RuntimeError"

\* await c.pip("freeze"), and the requirements file written from its output.
PipFreeze ==
    /\ fpc = "freeze"
    /\ invoked' = Append(invoked, [cmd |-> "pip freeze"])
    /\ \E code \in {0, 1} : Await(code, "mkdir")
    /\ UNCHANGED <<downloadDir, children, tmpDir, fusedDir, needsFusing>>
    /\ UNCHANGED schedVars
    /\ UNCHANGED <<invVars, relVars>>

\* await c.mkdir("-p", downloadDir, fusedDir, tmpDir)
Mkdir ==
    /\ fpc = "mkdir"
    /\ invoked' = Append(invoked, [cmd |-> "mkdir"])
    /\ \E code \in {0, 1} : Await(code, "wheel_arm64")
    /\ UNCHANGED <<downloadDir, children, tmpDir, fusedDir, needsFusing>>
    /\ UNCHANGED schedVars
    /\ UNCHANGED <<invVars, relVars>>

\* for arch in ["arm64", "x86_64"]: await c.arch(f"-{arch}", pip, "wheel", ...)
\* Each run leaves some wheels in the download directory.
PipWheel ==
    /\ fpc \in {"wheel_arm64", "wheel_x86_64"}
    /\ invoked' = Append(invoked, [cmd |-> "pip wheel"])
    /\ \E ws \in SUBSET Catalogue :
          /\ Cardinality(downloadDir \cup ws) <= MaxWheels
          /\ downloadDir' = downloadDir \cup ws
    /\ \E code \in {0, 1} :
          Await(code, IF fpc = "wheel_arm64" THEN "wheel_x86_64" ELSE "children")
    /\ UNCHANGED <<children, tmpDir, fusedDir, needsFusing>>
    /\ UNCHANGED schedVars
    /\ UNCHANGED <<invVars, relVars>>

\* needsFusing = defaultdict(FusedPair); FilePath(downloadDir).children()
ListChildren ==
    /\ fpc = "children"
    /\ children' = downloadDir
    /\ needsFusing' = <<>>
    /\ fpc' = "group"
    /\ UNCHANGED <<downloadDir, tmpDir, fusedDir, invoked, raised>>
    /\ UNCHANGED schedVars
    /\ UNCHANGED <<invVars, relVars>>

\* One iteration of `for child in FilePath(downloadDir).children()`; the
\* listing order is the file system's.
GroupChild ==
    /\ fpc = "group"
    /\ \E child \in children :
        LET arch == wheelNameArchitecture(child)
            key == <<child.project, child.version>>
            d == WithKey(needsFusing, key)
            i == IndexOf(d, key)
        IN  /\ children' = children \ {child}
            /\ IF arch = ValueError
                 THEN /\ fpc' = "aborted"
                      /\ raised' = "ValueError"
                      /\ UNCHANGED <<downloadDir, fusedDir, needsFusing>>
               ELSE IF arch = purePython
                 THEN /\ downloadDir' = downloadDir \ {child}
                      /\ fusedDir' = fusedDir \cup {child}
                      /\ UNCHANGED <<fpc, raised, needsFusing>>
               ELSE IF arch = <<"x86", "64">>
                 THEN /\ needsFusing' = [d EXCEPT ![i].fusor.x86_64 = child]
                      /\ UNCHANGED <<fpc, raised, downloadDir, fusedDir>>
               ELSE IF arch = <<"arm64">>
                 THEN /\ needsFusing' = [d EXCEPT ![i].fusor.arm64 = child]
                      /\ UNCHANGED <<fpc, raised, downloadDir, fusedDir>>
               ELSE /\ downloadDir' = downloadDir \ {child}
                    /\ fusedDir' = fusedDir \cup {child}
                    /\ needsFusing' = [d EXCEPT ![i].fusor.universal2 = child]
                    /\ UNCHANGED <<fpc, raised>>
    /\ UNCHANGED <<tmpDir, invoked>>
    /\ UNCHANGED schedVars
    /\ UNCHANGED <<invVars, relVars>>

\* parallel(fuseOne(name, version, fusor) for ... in needsFusing.items()),
\* with the default parallelism.
CallParallel ==
    /\ fpc = "group"
    /\ children = {}
    /\ fpc' = "fuse"
    /\ work' = [i \in DOMAIN needsFusing |->
                  [kind |-> "fuseOne", name |-> needsFusing[i].key[1],
                   version |-> needsFusing[i].key[2],
                   fusor |-> needsFusing[i].fusor]]
    /\ parallelism' = DefaultParallelism
    /\ tokens' = DeferredSemaphore(DefaultParallelism)
    /\ values' = <<>>
    /\ pc' = "for_w"
    /\ loop' = "work"
    /\ w' = 0
    /\ x' = 0
    /\ ustate' = [i \in DOMAIN needsFusing |-> "unstarted"]
    /\ out' = <<>>
    /\ completed' = <<>>
    /\ unhandled' = {}
    /\ UNCHANGED <<downloadDir, children, tmpDir, fusedDir, needsFusing,
                   invoked, raised>>
    /\ UNCHANGED <<invVars, relVars>>

\* Mutation: fuseOne without its test for a universal2 wheel.
FuseOneAlwaysFuses(fusor) ==
    IF fusor.arm64 = None THEN [do |-> "raise", arch |-> "amd64"]
    ELSE IF fusor.x86_64 = None THEN [do |-> "raise", arch |-> "x86_64"]
    ELSE [do |-> "fuse"]

\* What fuseOne does before it first suspends: return, raise
\* RuntimeError(f"no {arch} architecture for {name}"), or go on to fuse.
FuseOneDecision(fusor) ==
    IF fusor.universal2 # None THEN [do |-> "return"]
    ELSE IF fusor.arm64 = None THEN [do |-> "raise", arch |-> "amd64"]
    ELSE IF fusor.x86_64 = None THEN [do |-> "raise", arch |-> "x86_64"]
    ELSE [do |-> "fuse"]

\* Deferred.fromCoroutine(saveAndRelease(w)) where w is fuseOne(...): the
\* coroutine runs up to its first suspension.  It returns at once for a
\* group with a universal2 wheel, raises at once for a missing architecture
\* (saveAndRelease then releases the semaphore, which nobody waits for at
\* this point), or spawns delocate-fuse and stays in flight.
StartFuseOne ==
    /\ pc = "start"
    /\ work[w].kind = "fuseOne"
    /\ pc' = "for_w"
    /\ LET decision == FuseOneDecision(work[w].fusor)
       IN  IF decision.do = "return"
             THEN /\ ustate' = [ustate EXCEPT ![w] = "done"]
                  /\ values' = Append(values, w)
                  /\ completed' = Append(completed, w)
                  /\ tokens' = tokens + 1
                  /\ UNCHANGED <<unhandled, invoked>>
           ELSE IF decision.do = "fuse"
             THEN /\ ustate' = [ustate EXCEPT ![w] = "running"]
                  /\ invoked' = Append(invoked,
                        [cmd |-> "delocate-fuse", left |-> work[w].fusor.arm64,
                         right |-> work[w].fusor.x86_64])
                  /\ UNCHANGED <<values, completed, tokens, unhandled>>
           ELSE /\ ustate' = [ustate EXCEPT ![w] = "failed"]
                /\ completed' = Append(completed, w)
                /\ unhandled' = unhandled \cup
                      {[unit |-> w,
                        error |-> Error("no architecture for", decision.arch,
                                        work[w].name)]}
                /\ tokens' = tokens + 1
                /\ UNCHANGED <<values, invoked>>
    /\ UNCHANGED <<work, parallelism, loop, w, x, out>>
    /\ UNCHANGED <<fpc, downloadDir, children, tmpDir, fusedDir, needsFusing,
                   raised>>
    /\ UNCHANGED <<invVars, relVars>>

\* moveFrom = FilePath(tmpDir).child(left.basename()): the name in tmpDir.
moveFrom(fusor) == fusor.arm64

\* moveTo = FilePath(fusedDir).child(left.basename().replace(...)): the name
\* in fusedDir.
moveTo(fusor) == ReplaceArm64(fusor.arm64)

\* delocate-fuse, while it runs, writes the fused wheel into tmpDir under the
\* base name of its arm64 input.
DelocateWrites ==
    /\ \E i \in InFlight :
          /\ work[i].kind = "fuseOne"
          /\ moveFrom(work[i].fusor) \notin tmpDir
          /\ tmpDir' = tmpDir \cup {moveFrom(work[i].fusor)}
    /\ UNCHANGED <<fpc, downloadDir, children, fusedDir, needsFusing, invoked,
                   raised>>
    /\ UNCHANGED schedVars
    /\ UNCHANGED <<invVars, relVars>>

\* delocate-fuse exits.  Non-zero: Invocation.__call__ raises RuntimeError.
\* Zero: moveFrom.moveTo(moveTo), which raises if the tool wrote nothing.
DelocateExits ==
    /\ \E i \in InFlight : \E code \in {0, 1} :
          LET from == moveFrom(work[i].fusor)
          IN  /\ work[i].kind = "fuseOne"
              /\ IF code # 0
                   THEN /\ SaveAndReleaseRaise(i,
                              Error("exited with error", "none", work[i].name))
                        /\ UNCHANGED <<tmpDir, fusedDir>>
                 ELSE IF from \notin tmpDir
                   THEN /\ SaveAndReleaseRaise(i,
                              Error("OSError", "none", work[i].name))
                        /\ UNCHANGED <<tmpDir, fusedDir>>
                 ELSE /\ SaveAndReleaseOk(i)
                      /\ tmpDir' = tmpDir \ {from}
                      /\ fusedDir' = fusedDir \cup {moveTo(work[i].fusor)}
    /\ UNCHANGED <<fpc, downloadDir, children, needsFusing, invoked, raised>>
    /\ UNCHANGED <<invVars, relVars>>

\* `async for each in parallel(...): pass` ends when the generator does.
ParallelEnds ==
    /\ fpc = "fuse"
    /\ pc = "done"
    /\ fpc' = "install"
    /\ UNCHANGED <<downloadDir, children, tmpDir, fusedDir, needsFusing,
                   invoked, raised>>
    /\ UNCHANGED schedVars
    /\ UNCHANGED <<invVars, relVars>>

\* await c.pip("install", "--no-index", "--find-links", fusedDir, ...)
PipInstall ==
    /\ fpc = "install"
    /\ invoked' = Append(invoked, [cmd |-> "pip install"])
    /\ \E code \in {0, 1} : Await(code, "returned")
    /\ UNCHANGED <<downloadDir, children, tmpDir, fusedDir, needsFusing>>
    /\ UNCHANGED schedVars
    /\ UNCHANGED <<invVars, relVars>>

\* fixArchitectures() has been called; parallel() has not.
FixInit ==
    /\ fpc = "freeze"
    /\ downloadDir = {}
    /\ children = {}
    /\ tmpDir = {}
    /\ fusedDir = {}
    /\ needsFusing = <<>>
    /\ invoked = <<>>
    /\ raised = "none"
    /\ work = <<>>
    /\ parallelism = DefaultParallelism
    /\ tokens = 0
    /\ values = <<>>
    /\ pc = "idle"
    /\ loop = "work"
    /\ w = 0
    /\ x = 0
    /\ ustate = <<>>
    /\ out = <<>>
    /\ completed = <<>>
    /\ unhandled = {}
    /\ NoInvocation
    /\ NoRelease

FixNext ==
    \/ PipFreeze
    \/ Mkdir
    \/ PipWheel
    \/ ListChildren
    \/ GroupChild
    \/ CallParallel
    \/ Scheduler
    \/ Consumer
    \/ StartFuseOne
    \/ DelocateWrites
    \/ DelocateExits
    \/ ParallelEnds
    \/ PipInstall

FixSpec == FixInit /\ [][FixNext]_vars

(***************************************************************************)
(* Invocation.__call__ and InvocationProcessProtocol                       *)
(***************************************************************************)

\* What a process may write in one piece.
Data == {<<"a">>, <<"b">>}

ExitCodes == {0, 1, 2}

\* Command.__getitem__: which(self.name)[0], which raises IndexError when the
\* name is not on the search path.
CommandGetItem ==
    /\ ipc = "lookup"
    /\ \E onPath \in BOOLEAN :
          IF onPath
            THEN ipc' = "call" /\ UNCHANGED iresult
            ELSE ipc' = "raised" /\ iresult' = [type |-> "IndexError"]
    /\ UNCHANGED <<ioutput, ierrors, iexit>>
    /\ UNCHANGED <<schedVars, fixVars, relVars>>

\* ipp = InvocationProcessProtocol(self, quiet); spawnProcess(...);
\* await ipp.d
SpawnProcess ==
    /\ ipc = "call"
    /\ ipc' = "running"
    /\ ioutput' = <<>>
    /\ ierrors' = <<>>
    /\ UNCHANGED <<iexit, iresult>>
    /\ UNCHANGED <<schedVars, fixVars, relVars>>

\* outReceived: self.output += outData
outReceived ==
    /\ ipc = "running"
    /\ \E outData \in Data :
          /\ Len(ioutput) + Len(outData) <= MaxBytes
          /\ ioutput' = ioutput \o outData
    /\ UNCHANGED <<ipc, ierrors, iexit, iresult>>
    /\ UNCHANGED <<schedVars, fixVars, relVars>>

\* errReceived: self.errors += errData
errReceived ==
    /\ ipc = "running"
    /\ \E errData \in Data :
          /\ Len(ierrors) + Len(errData) <= MaxBytes
          /\ ierrors' = ierrors \o errData
    /\ UNCHANGED <<ipc, ioutput, iexit, iresult>>
    /\ UNCHANGED <<schedVars, fixVars, relVars>>

\* if value != 0: raise RuntimeError(f"{executable} {argv} exited with error
\* {value}"); return ProcessResult(value, ipp.output, self)
CallResult(value, output) ==
    IF value # 0
      THEN [type |-> "RuntimeError", executable |-> "exe", argv |-> <<"arg">>,
            value |-> value]
      ELSE [type |-> "ProcessResult", status |-> value, output |-> output]

\* processEnded: self.d.callback(pd.exitCode), which resumes __call__.
processEnded ==
    /\ ipc = "running"
    /\ \E exitCode \in ExitCodes :
          /\ iexit' = exitCode
          /\ iresult' = CallResult(exitCode, ioutput)
          /\ ipc' = IF iresult'.type = "ProcessResult" THEN "returned"
                                                       ELSE "raised"
    /\ UNCHANGED <<ioutput, ierrors>>
    /\ UNCHANGED <<schedVars, fixVars, relVars>>

\* await c.name(*args): Command.__call__ has been entered.
InvInit ==
    /\ ipc = "lookup"
    /\ ioutput = <<>>
    /\ ierrors = <<>>
    /\ iexit = -1
    /\ iresult = [type |-> "none"]
    /\ NoFix
    /\ NoRelease
    /\ work = <<>>
    /\ parallelism = DefaultParallelism
    /\ tokens = 0
    /\ values = <<>>
    /\ pc = "idle"
    /\ loop = "work"
    /\ w = 0
    /\ x = 0
    /\ ustate = <<>>
    /\ out = <<>>
    /\ completed = <<>>
    /\ unhandled = {}

InvNext ==
    \/ CommandGetItem
    \/ SpawnProcess
    \/ outReceived
    \/ errReceived
    \/ processEnded

InvSpec == InvInit /\ [][InvNext]_vars

(***************************************************************************)
(* findSingleArchitectureBinaries() and validateArchitectures()            *)
(***************************************************************************)

\* What `file -b` prints for a path, as the words of the line.
DescBundle == <<"Mach-O", "64-bit", "bundle", "arm64">>
DescUniversal ==
    <<"Mach-O", "universal", "binary", "with", "2", "architectures">>
DescExecutable == <<"Mach-O", "64-bit", "executable", "arm64">>
DescDirectory == <<"directory">>

\* A path that FilePath.walk() yields: its parent's basename, its basename
\* and extension, what islink() and isfile() say and what `file -b` prints.
File(parent, base, ext, islink, isfile, desc) ==
    [parent |-> parent, base |-> base, ext |-> ext, islink |-> islink,
     isfile |-> isfile, desc |-> desc]

\* The paths the trees are made of: a single-architecture bundle, a
\* universal one, a launcher stub under prebuilt/, the same basename
\* elsewhere, a symbolic link to a bundle, a directory and the interpreter.
Files ==
    { File("lib", "mod.so", ".so", FALSE, TRUE, DescBundle),
      File("lib", "fat.so", ".so", FALSE, TRUE, DescUniversal),
      File("prebuilt", "main-arm64", "", FALSE, TRUE, DescBundle),
      File("bin", "main-arm64", "", FALSE, TRUE, DescBundle),
      File("lib", "link.so", ".so", TRUE, TRUE, DescBundle),
      File("Resources", "lib", "", FALSE, FALSE, DescDirectory),
      File("MacOS", "python", "", FALSE, TRUE, DescExecutable) }

\* The paths under the roots, in the order walk() yields them.
Trees ==
    UNION { {t \in [1..n -> Files] :
               \A i, j \in 1..n : t[i] = t[j] => i = j} : n \in 0..MaxFiles }

\* bytes.startswith
startswith(s, prefix) ==
    Len(prefix) <= Len(s) /\ SubSeq(s, 1, Len(prefix)) = prefix

\* Mutation: any Mach-O file counts as a single-architecture binary.
isSingleBinaryAnyMachO(output) == startswith(output, <<"Mach-O">>)

\* checkOne: `.output.startswith(b"Mach-O 64-bit bundle")`
isSingleBinary(output) == startswith(output, <<"Mach-O", "64-bit", "bundle">>)

\* checkOne(path)[1] when checkOne returns: False for a link and for what is
\* no file, else what the output of `file -b` says.
checkOne(path) ==
    IF path.islink THEN FALSE
    ELSE IF ~path.isfile THEN FALSE
    ELSE isSingleBinary(path.desc)

\* Mutation: the launcher stubs are exempt wherever they are.
ExemptAnywhere(path) == path.base \in {"main-x86_64", "main-arm64"}

\* validateArchitectures: the py2app launcher stubs are let through.
Exempt(path) ==
    /\ path.base \in {"main-x86_64", "main-arm64"}
    /\ path.parent = "prebuilt"

\* parallel(wk, n) is called: the generator is made and starts running when
\* its consumer first pulls, which every caller here does at once.
parallel(wk, n) ==
    /\ work' = wk
    /\ parallelism' = n
    /\ tokens' = DeferredSemaphore(n)
    /\ values' = <<>>
    /\ pc' = "for_w"
    /\ loop' = "work"
    /\ w' = 0
    /\ x' = 0
    /\ ustate' = [i \in DOMAIN wk |-> "unstarted"]
    /\ out' = <<>>
    /\ completed' = <<>>
    /\ unhandled' = {}

\* Where each call of validateArchitectures() is made from, and the scan it
\* starts.
Scanning(caller) ==
    CASE caller = "validate" -> "scan"
      [] caller = "fatten" -> "scan_env"
      [] caller = "refatten" -> "rescan_env"
      [] caller = "validate_app" -> "scan_app"

\* validateArchitectures(paths): success = True, then the scan of all that
\* walk() yields under the paths, ScanParallelism at a time.
CallValidate ==
    /\ rpc \in {"validate", "fatten", "refatten", "validate_app"}
    /\ rpc' = Scanning(rpc)
    /\ success' = TRUE
    /\ found' = {}
    /\ \E tree \in Trees :
          parallel([i \in DOMAIN tree |-> [kind |-> "checkOne",
                                          path |-> tree[i]]],
                   ScanParallelism)
    /\ UNCHANGED scans
    /\ UNCHANGED fixVars
    /\ UNCHANGED invVars

\* Deferred.fromCoroutine(saveAndRelease(checkOne(path))): checkOne returns
\* at once for a link or what is no file; else it looks `file` up, which
\* raises at once when it is not on the PATH, and spawns it.
StartCheckOne ==
    /\ pc = "start"
    /\ work[w].kind = "checkOne"
    /\ pc' = "for_w"
    /\ IF work[w].path.islink \/ ~work[w].path.isfile
         THEN /\ ustate' = [ustate EXCEPT ![w] = "done"]
              /\ values' = Append(values, w)
              /\ completed' = Append(completed, w)
              /\ tokens' = tokens + 1
              /\ UNCHANGED unhandled
         ELSE \E onPath \in BOOLEAN :
                IF onPath
                  THEN /\ ustate' = [ustate EXCEPT ![w] = "running"]
                       /\ UNCHANGED <<values, completed, tokens, unhandled>>
                  ELSE /\ ustate' = [ustate EXCEPT ![w] = "failed"]
                       /\ completed' = Append(completed, w)
                       /\ unhandled' = unhandled \cup
                             {[unit |-> w,
                               error |-> Error("IndexError", "none", "file")]}
                       /\ tokens' = tokens + 1
                       /\ UNCHANGED values
    /\ UNCHANGED <<work, parallelism, loop, w, x, out>>
    /\ UNCHANGED fixVars
    /\ UNCHANGED <<invVars, relVars>>

\* `file -b path` ends: with code 0 checkOne returns, with another code the
\* Invocation raises.
FileExits ==
    /\ \E i \in InFlight, code \in {0, 1} :
          /\ work[i].kind = "checkOne"
          /\ IF code = 0
               THEN SaveAndReleaseOk(i)
               ELSE SaveAndReleaseRaise(i,
                       Error("exited with error", "none", "file"))
    /\ UNCHANGED fixVars
    /\ UNCHANGED <<invVars, relVars>>

\* One turn of both `async for` loops: findSingleArchitectureBinaries takes
\* (eachPath, isSingleBinary) from parallel() and yields eachPath when it is
\* single; validateArchitectures then fails unless the path is exempt.  Both
\* ask for the next value at once.
ScanPull ==
    /\ pc = "yielded"
    /\ rpc \in {"scan", "scan_env", "rescan_env", "scan_app"}
    /\ pc' = "while"
    /\ LET eachPath == work[out[Len(out)]].path
       IN  IF checkOne(eachPath)
             THEN /\ found' = found \cup {eachPath}
                  /\ success' = IF Exempt(eachPath) THEN success ELSE FALSE
             ELSE UNCHANGED <<found, success>>
    /\ UNCHANGED <<rpc, scans>>
    /\ UNCHANGED <<work, parallelism, tokens, values, loop, w, x, ustate, out,
                   completed, unhandled>>
    /\ UNCHANGED fixVars
    /\ UNCHANGED invVars

\* Mutation: fattenEnvironment() without its second check.
AfterScanNoRecheck(scanned, ok) ==
    CASE scanned = "scan" -> "returned"
      [] scanned = "scan_env" -> IF ok THEN "build" ELSE "fix"
      [] scanned = "rescan_env" -> "build"
      [] scanned = "scan_app" -> IF ok THEN "sign" ELSE "aborted"

\* Mutation: release() without its check of archOK.
AfterScanNoCheck(scanned, ok) ==
    CASE scanned = "scan" -> "returned"
      [] scanned = "scan_env" -> IF ok THEN "build" ELSE "fix"
      [] scanned = "rescan_env" -> IF ok THEN "build" ELSE "aborted"
      [] scanned = "scan_app" -> "sign"

\* What the caller does with what validateArchitectures() returned:
\* fattenEnvironment() returns when the environment is fine and else calls
\* fixArchitectures(), and raises when it still is not fine after that;
\* release() raises unless the built application is fine.
AfterScan(scanned, ok) ==
    CASE scanned = "scan" -> "returned"
      [] scanned = "scan_env" -> IF ok THEN "build" ELSE "fix"
      [] scanned = "rescan_env" -> IF ok THEN "build" ELSE "aborted"
      [] scanned = "scan_app" -> IF ok THEN "sign" ELSE "aborted"

\* The generator ends and validateArchitectures() returns success.
ValidateReturns ==
    /\ pc = "done"
    /\ rpc \in {"scan", "scan_env", "rescan_env", "scan_app"}
    /\ scans' = Append(scans, [of |-> rpc, success |-> success])
    /\ rpc' = AfterScan(rpc, success)
    /\ pc' = "idle"
    /\ UNCHANGED <<success, found>>
    /\ UNCHANGED <<work, parallelism, tokens, values, loop, w, x, ustate, out,
                   completed, unhandled>>
    /\ UNCHANGED fixVars
    /\ UNCHANGED invVars

\* The scheduler is not running.
NoParallel ==
    /\ work = <<>>
    /\ parallelism = DefaultParallelism
    /\ tokens = 0
    /\ values = <<>>
    /\ pc = "idle"
    /\ loop = "work"
    /\ w = 0
    /\ x = 0
    /\ ustate = <<>>
    /\ out = <<>>
    /\ completed = <<>>
    /\ unhandled = {}

\* validateArchitectures() is about to be called on some paths.
ScanInit ==
    /\ rpc = "validate"
    /\ success = TRUE
    /\ found = {}
    /\ scans = <<>>
    /\ NoParallel
    /\ NoFix
    /\ NoInvocation

ScanNext ==
    \/ CallValidate
    \/ Scheduler
    \/ StartCheckOne
    \/ FileExits
    \/ ScanPull
    \/ ValidateReturns

ScanSpec == ScanInit /\ [][ScanNext]_vars

(***************************************************************************)
(* AppBuilder.release(): fattenEnvironment(), build(), signApp() and       *)
(* notarizeApp()                                                           *)
(***************************************************************************)

\* originalAppPath(): the application bundle under dist/.
originalAppPath == File("dist", "App.app", ".app", FALSE, FALSE, DescDirectory)

\* signablePathsIn: the test each path of the bundle is put to.
Signable(p) ==
    \/ p.ext \in {".so", ".dylib", ".framework", ".a"}
    \/ p.base = "python" /\ p.parent = "MacOS"

\* await fixArchitectures(): it returns or it raises (FixSpec has its steps).
FixArchitecturesRuns ==
    /\ rpc = "fix"
    /\ \E returns \in BOOLEAN :
          rpc' = IF returns THEN "refatten" ELSE "aborted"
    /\ UNCHANGED <<success, found, scans>>
    /\ UNCHANGED schedVars
    /\ UNCHANGED fixVars
    /\ UNCHANGED invVars

\* build(): await c.python("setup.py", "py2app")
Build ==
    /\ rpc = "build"
    /\ invoked' = Append(invoked, [cmd |-> "py2app"])
    /\ \E code \in {0, 1} :
          rpc' = IF code = 0 THEN "validate_app" ELSE "aborted"
    /\ UNCHANGED <<success, found, scans>>
    /\ UNCHANGED schedVars
    /\ UNCHANGED <<fpc, downloadDir, children, tmpDir, fusedDir, needsFusing,
                   raised>>
    /\ UNCHANGED invVars

\* signApp(): parallel() over signOneFile(p) for the signable paths of the
\* bundle, which is the bundle that was just validated.
CallSign ==
    /\ rpc = "sign"
    /\ rpc' = "signing"
    /\ LET bundle == [i \in DOMAIN work |-> work[i].path]
           paths == SelectSeq(bundle, Signable)
       IN  parallel([i \in DOMAIN paths |-> [kind |-> "signOneFile",
                                            path |-> paths[i]]],
                    DefaultParallelism)
    /\ UNCHANGED <<success, found, scans>>
    /\ UNCHANGED fixVars
    /\ UNCHANGED invVars

\* Deferred.fromCoroutine(saveAndRelease(signOneFile(p))): codesign is
\* looked up, which raises at once when it is not on the PATH, and spawned.
StartSignOne ==
    /\ pc = "start"
    /\ work[w].kind = "signOneFile"
    /\ pc' = "for_w"
    /\ \E onPath \in BOOLEAN :
          IF onPath
            THEN /\ ustate' = [ustate EXCEPT ![w] = "running"]
                 /\ invoked' = Append(invoked, [cmd |-> "codesign",
                                                path |-> work[w].path])
                 /\ UNCHANGED <<completed, tokens, unhandled>>
            ELSE /\ ustate' = [ustate EXCEPT ![w] = "failed"]
                 /\ completed' = Append(completed, w)
                 /\ unhandled' = unhandled \cup
                       {[unit |-> w,
                         error |-> Error("IndexError", "none", "codesign")]}
                 /\ tokens' = tokens + 1
                 /\ UNCHANGED invoked
    /\ UNCHANGED <<work, parallelism, values, loop, w, x, out>>
    /\ UNCHANGED <<fpc, downloadDir, children, tmpDir, fusedDir, needsFusing,
                   raised>>
    /\ UNCHANGED <<invVars, relVars>>

\* codesign ends for a nested path: signOneFile returns or raises.
CodesignExits ==
    /\ \E i \in InFlight, code \in {0, 1} :
          /\ work[i].kind = "signOneFile"
          /\ IF code = 0
               THEN SaveAndReleaseOk(i)
               ELSE SaveAndReleaseRaise(i,
                       Error("exited with error", "none", "codesign"))
    /\ UNCHANGED fixVars
    /\ UNCHANGED <<invVars, relVars>>

\* `async for signResult in parallel(...): pass`
SignPull ==
    /\ rpc = "signing"
    /\ Pull
    /\ UNCHANGED fixVars
    /\ UNCHANGED <<invVars, relVars>>

\* The loop over the nested paths ends when the generator does.
SignEnds ==
    /\ rpc = "signing"
    /\ pc = "done"
    /\ rpc' = "sign_top"
    /\ UNCHANGED <<success, found, scans>>
    /\ UNCHANGED schedVars
    /\ UNCHANGED fixVars
    /\ UNCHANGED invVars

\* await signOneFile(top, ...): the bundle itself is signed.
SignTop ==
    /\ rpc = "sign_top"
    /\ invoked' = Append(invoked, [cmd |-> "codesign",
                                   path |-> originalAppPath])
    /\ \E code \in {0, 1} : rpc' = IF code = 0 THEN "notarize" ELSE "aborted"
    /\ UNCHANGED <<success, found, scans>>
    /\ UNCHANGED schedVars
    /\ UNCHANGED <<fpc, downloadDir, children, tmpDir, fusedDir, needsFusing,
                   raised>>
    /\ UNCHANGED invVars

\* The commands notarizeApp() awaits, in order: the archive for notarizing,
\* its submission, the stapling and the release archive.
NotarizeCommands == <<"ditto", "notarytool submit", "stapler staple", "ditto">>

\* notarizeApp(): the commands run in order up to the first that fails.
NotarizeApp ==
    /\ rpc = "notarize"
    /\ \E n \in DOMAIN NotarizeCommands, code \in {0, 1} :
          /\ code = 0 => n = Len(NotarizeCommands)
          /\ invoked' = invoked \o
                [i \in 1..n |-> [cmd |-> NotarizeCommands[i]]]
          /\ rpc' = IF code = 0 THEN "returned" ELSE "aborted"
    /\ UNCHANGED <<success, found, scans>>
    /\ UNCHANGED schedVars
    /\ UNCHANGED <<fpc, downloadDir, children, tmpDir, fusedDir, needsFusing,
                   raised>>
    /\ UNCHANGED invVars

\* release() has been called and has called fattenEnvironment().
RelInit ==
    /\ rpc = "fatten"
    /\ success = TRUE
    /\ found = {}
    /\ scans = <<>>
    /\ NoParallel
    /\ NoFix
    /\ NoInvocation

RelNext ==
    \/ CallValidate
    \/ Scheduler
    \/ StartCheckOne
    \/ FileExits
    \/ ScanPull
    \/ ValidateReturns
    \/ FixArchitecturesRuns
    \/ Build
    \/ CallSign
    \/ StartSignOne
    \/ CodesignExits
    \/ SignPull
    \/ SignEnds
    \/ SignTop
    \/ NotarizeApp

RelSpec == RelInit /\ [][RelNext]_vars

(***************************************************************************)
(* Properties of parallel()                                                *)
(***************************************************************************)

Pos(s, e) == CHOOSE k \in DOMAIN s : s[k] = e

Ended(i) == ustate[i] \in {"done", "failed"}

\* C1: whatever the limit, the work and the interleaving, the number of units
\* started and not yet ended never exceeds parallelism.
C1_AtMostNInFlight == Cardinality(InFlight) <= parallelism

\* C1 witness: the limit is reached and the next unit is held back.
C1_Saturated ==
    /\ parallelism = 2
    /\ Cardinality(InFlight) = parallelism
    /\ pc = "waiting"
    /\ loop = "work"

\* C2: when parallel() is exhausted it has yielded as many results as it was
\* given units, each unit's result exactly once.
C2_EveryUnitYieldedOnce ==
    pc = "done" =>
        /\ Len(out) = Len(work)
        /\ \A i \in DOMAIN work : Cardinality({k \in DOMAIN out : out[k] = i}) = 1

\* C3: results are yielded in completion order: a result that has been
\* yielded comes after the result of every unit that returned earlier.
C3_CompletionOrder ==
    \A b \in Range(out) : \A a \in DOMAIN ustate :
        (ustate[a] = "done" /\ Pos(completed, a) < Pos(completed, b)) =>
            /\ a \in Range(out)
            /\ Pos(out, a) < Pos(out, b)

\* C3 witness: the unit submitted second returned first and both results
\* have been yielded.
C3_OutOfSubmissionOrder == out = <<2, 1>>

\* C4: with parallelism 1 a unit is started only after every unit before it
\* has ended, and the results come in submission order.
C4_SequentialWhenOne ==
    parallelism = 1 =>
        /\ \A i \in DOMAIN ustate : ustate[i] # "unstarted" =>
              \A j \in 1..(i - 1) : Ended(j)
        /\ \A k \in 1..(Len(out) - 1) : out[k] < out[k + 1]
        /\ \A b \in Range(out) : \A a \in 1..(b - 1) :
              ustate[a] = "done" => a \in Range(out)

\* C4 witness: three units went through a scheduler of one slot.
C4_ThreeInSequence == parallelism = 1 /\ pc = "done" /\ out = <<1, 2, 3>>

\* C5: the failure of a unit reaches the consumer: once parallel() is
\* exhausted, every unit that raised has an outcome among what was yielded.
C5_FailureSurfaced ==
    pc = "done" =>
        \A i \in DOMAIN ustate : ustate[i] = "failed" => i \in Range(out)

\* tokens the generator itself holds: the one drain() took for the unit it is
\* about to start, or those the second loop has taken back.
Held ==
    IF loop = "work"
      THEN IF pc \in {"while", "yielded", "start"} THEN 1 ELSE 0
      ELSE IF pc \in {"acquire", "waiting"} THEN x - 1 ELSE x

SlotAccounting == pc = "idle" \/ tokens + Cardinality(InFlight) + Held = parallelism

Exhausted ==
    /\ pc = "done"
    /\ InFlight = {}
    /\ w = Len(work)
    /\ \A i \in DOMAIN ustate : Ended(i)
    /\ \A i \in DOMAIN ustate : ustate[i] = "done" => i \in Range(out)

\* C6: a failing unit does not halt the scheduler: its slot is given back,
\* and once a unit has failed parallel() still becomes exhausted, with every
\* unit ended, nothing in flight, no input left and the result of every unit
\* that returned yielded.
C6_FailureDoesNotHalt ==
    /\ [](SlotAccounting)
    /\ (\E i \in DOMAIN ustate : ustate[i] = "failed") ~> Exhausted

\* C6 witness: a unit failed while an earlier one was in flight; the earlier
\* one returned afterwards, its result was yielded and parallel() ended.
C6_SiblingSurvived ==
    /\ pc = "done"
    /\ \E i, j \in DOMAIN ustate :
          /\ j < i
          /\ ustate[i] = "failed"
          /\ ustate[j] = "done"
          /\ Pos(completed, i) < Pos(completed, j)
          /\ j \in Range(out)

\* C7: once a unit has failed, no unit that was not started is started.
C7_NoStartAfterFailure ==
    [][(\E i \in DOMAIN ustate : ustate[i] = "failed") =>
          \A j \in DOMAIN ustate :
              ustate[j] = "unstarted" => ustate'[j] = "unstarted"]_vars

(***************************************************************************)
(* Properties of fixArchitectures()                                        *)
(***************************************************************************)

InstallInvoked == \E k \in DOMAIN invoked : invoked[k].cmd = "pip install"

\* The groups that can be fused, and those that lack an architecture.
Fusable(fusor) ==
    fusor.universal2 = None /\ fusor.arm64 # None /\ fusor.x86_64 # None

Lacking(fusor) ==
    fusor.universal2 = None /\ (fusor.arm64 = None \/ fusor.x86_64 = None)

\* The invocations of delocate-fuse on the wheels of one group.
FuseCalls(key) ==
    {k \in DOMAIN invoked :
        /\ invoked[k].cmd = "delocate-fuse"
        /\ <<invoked[k].left.project, invoked[k].left.version>> = key}

\* C8: a group without a universal2 wheel that lacks its arm64 or its x86_64
\* wheel aborts the pass: fixArchitectures() does not return normally and
\* `pip install` from the fused directory is never invoked.
C8_MissingArchitectureAborts ==
    (\E i \in DOMAIN needsFusing : Lacking(needsFusing[i].fusor)) =>
        (fpc # "returned" /\ ~InstallInvoked)

\* C9: the error for a group that lacks one architecture names the tag that
\* is missing: arm64 for a group with only an x86_64 wheel, x86_64 for a group
\* with only an arm64 wheel.
C9_ErrorNamesMissingTag ==
    \A e \in unhandled :
        LET fusor == work[e.unit].fusor
        IN  e.error.text = "no architecture for" =>
              /\ (fusor.arm64 = None /\ fusor.x86_64 # None) =>
                    e.error.arch = "arm64"
              /\ (fusor.arm64 # None /\ fusor.x86_64 = None) =>
                    e.error.arch = "x86_64"

Members(fusor) == {fusor.arm64, fusor.x86_64, fusor.universal2} \ {None}

\* The for loop over the children of the download directory has ended.
GroupingDone == fpc = "group" /\ children = {}

\* C11: grouping puts every artifact of the download directory in exactly
\* one group: none is dropped and none is in two groups.  (Stated for the
\* artifacts that are not pure-Python, which the code moves without a group.)
C11_EveryArtifactInOneGroup ==
    GroupingDone =>
        \A a \in downloadDir \cup fusedDir :
            wheelNameArchitecture(a) # purePython =>
                Cardinality({i \in DOMAIN needsFusing :
                                a \in Members(needsFusing[i].fusor)}) = 1

\* A platform tag segment that does not split in four fields, or whose
\* architecture is none of x86_64, arm64, universal2.
BadSegment(tag) ==
    \/ Len(Split3(tag)) # 4
    \/ Split3(tag)[4] \notin {<<"x86", "64">>, <<"arm64">>, <<"universal2">>}

\* An artifact the filename format does not classify.
Unclassifiable(a) ==
    /\ ~(a.abi = <<"none">> /\ a.plats = <<TagAny>>)
    /\ \/ Len(a.plats) > 1
       \/ \E k \in DOMAIN a.plats : BadSegment(a.plats[k])

\* C12: an unclassifiable artifact makes classification raise and aborts the
\* pass before any fusing or install; none of its tag segments is skipped.
C12_UnclassifiableAborts ==
    \A a \in (downloadDir \cup fusedDir) \ children :
        (Unclassifiable(a) /\ fpc \in {"group", "fuse", "install", "returned",
                                       "aborted"}) =>
            /\ fpc = "aborted"
            /\ \A k \in DOMAIN invoked :
                  invoked[k].cmd \notin {"delocate-fuse", "pip install"}

\* The unit `for w in work` has fetched is not started yet.
NextUnstarted == loop = "work" /\ w >= 1 /\ ustate[w] = "unstarted"

\* C19: a unit is started as soon as a slot is free and input remains: there
\* is no state with fewer than parallelism units in flight and a unit to
\* start in which parallel() waits for the consumer to take a result.
C19_StartedAsSoonAsSlotFree ==
    ~(Cardinality(InFlight) < parallelism /\ NextUnstarted /\ pc = "yielded")

\* C19, amended: with fewer than parallelism units in flight and a unit to
\* start, parallel() is never parked on the semaphore; where it is suspended
\* it is at a yield, until the consumer takes the result.
C19_WaitsOnlyForSlotOrConsumer ==
    (Cardinality(InFlight) < parallelism /\ NextUnstarted) =>
        /\ pc # "waiting"
        /\ pc \in {"acquire", "while", "yielded", "start"}

\* C19 witness: a slot is free, a unit is waiting to be started and the
\* generator is suspended at a yield.
C19_HeldBackByConsumer ==
    /\ pc = "yielded"
    /\ NextUnstarted
    /\ Cardinality(InFlight) + 1 < parallelism
    /\ tokens > 0

\* The units of fixArchitectures() that went on to fuse.
Resolving ==
    {i \in DOMAIN work :
        /\ work[i].kind = "fuseOne"
        /\ ustate[i] # "unstarted"
        /\ FuseOneDecision(work[i].fusor).do = "fuse"}

\* C20: no two group resolutions of a pass write or move a file to the same
\* name, in tmpDir or in fusedDir: groups of distinct (project, version)
\* keys have distinct target names.
C20_DisjointTargets ==
    \A i, j \in Resolving :
        i # j =>
            /\ moveFrom(work[i].fusor) # moveFrom(work[j].fusor)
            /\ moveTo(work[i].fusor) # moveTo(work[j].fusor)

\* C20 witness: two groups are being fused at the same time and the tool has
\* written both wheels into tmpDir.
C20_TwoFusingAtOnce ==
    \E i, j \in Resolving \cap InFlight :
        /\ i # j
        /\ moveFrom(work[i].fusor) \in tmpDir
        /\ moveFrom(work[j].fusor) \in tmpDir

(***************************************************************************)
(* Properties of Invocation.__call__                                       *)
(***************************************************************************)

\* C17: a process that exits non-zero makes the invocation fail with an error
\* that carries the exit code and the output accumulated from the process;
\* no ProcessResult is returned for a non-zero exit.
C17_ErrorCarriesCodeAndOutput ==
    (iexit > 0) =>
        /\ ipc = "raised"
        /\ iresult.type # "ProcessResult"
        /\ iresult.value = iexit
        /\ "output" \in DOMAIN iresult
        /\ iresult.output = ioutput


(***************************************************************************)
(* Properties of validateArchitectures()                                   *)
(***************************************************************************)

\* The units of a scan for which `file -b` ran and gave its output.
Described ==
    {i \in DOMAIN work : /\ work[i].kind = "checkOne"
                         /\ ~work[i].path.islink
                         /\ work[i].path.isfile
                         /\ ustate[i] = "done"}

\* C16: once the scan is over, what findSingleArchitectureBinaries yielded
\* is exactly the paths that are regular files, are no symbolic links and
\* whose `file -b` output begins with "Mach-O 64-bit bundle"; a path whose
\* output begins with "Mach-O universal binary" is never among them.
C16_ExactlySingleBundles ==
    /\ \A p \in found :
          ~startswith(p.desc, <<"Mach-O", "universal", "binary">>)
    /\ rpc = "returned" =>
          found = {work[i].path : i \in
                     {j \in Described :
                        startswith(work[j].path.desc,
                                   <<"Mach-O", "64-bit", "bundle">>)}}

\* C16 witness: a scan is over that examined a single-architecture bundle,
\* which it found, and a universal one, which it did not.
C16_BundleFoundUniversalNot ==
    /\ rpc = "returned"
    /\ \E i, j \in Described :
          /\ work[i].path.desc = DescBundle
          /\ work[i].path \in found
          /\ work[j].path.desc = DescUniversal
          /\ work[j].path \notin found

\* C15: validateArchitectures() returns success exactly when every
\* single-architecture binary the scan found is named main-x86_64 or
\* main-arm64 and lies in a directory named prebuilt.
C15_OnlyStubsExempt ==
    rpc = "returned" =>
        (scans[1].success <=>
            \A p \in found : /\ p.base \in {"main-x86_64", "main-arm64"}
                             /\ p.parent = "prebuilt")

\* C15 witness: a scan that found a launcher stub under prebuilt/ has
\* returned success.
C15_StubLetThrough ==
    /\ rpc = "returned"
    /\ scans[1].success
    /\ \E p \in found : p.parent = "prebuilt"

\* C18: validateArchitectures() does not return success from a scan in
\* which `file` failed for a path, by its exit code or by not being found.
C18_FailedScanNeverSucceeds ==
    (\E i \in DOMAIN work : work[i].kind = "checkOne" /\ ustate[i] = "failed")
        => ~(rpc = "returned" /\ scans[1].success)


(***************************************************************************)
(* Properties of release() and fattenEnvironment()                         *)
(***************************************************************************)

\* The single-architecture binaries the scan found that are no launcher
\* stubs under prebuilt/.
NonExempt ==
    {p \in found : ~(/\ p.base \in {"main-x86_64", "main-arm64"}
                     /\ p.parent = "prebuilt")}

\* The last scan that ended is the given one and none was started since,
\* so that found is what it found.
LastScan(scan) ==
    /\ Len(scans) > 0
    /\ scans[Len(scans)].of = scan
    /\ rpc \notin {"scan_env", "rescan_env", "scan_app"}

BuildStarted == \E k \in DOMAIN invoked : invoked[k].cmd = "py2app"

\* fattenEnvironment() has returned without an error.
Fattened == rpc = "build" \/ BuildStarted

\* C13: fattenEnvironment() scans again after fixArchitectures(); when that
\* scan finds a single-architecture binary that is not exempt it raises, and
\* it returns normally only when that scan finds none.
C13_RescanDecides ==
    /\ LastScan("rescan_env") =>
          IF NonExempt # {} THEN rpc = "aborted" /\ ~Fattened ELSE Fattened
    /\ (Fattened /\ ~scans[1].success) =>
          /\ Len(scans) >= 2
          /\ scans[2].of = "rescan_env"
          /\ scans[2].success

\* C13 witness: the scan after fixArchitectures() found a binary that is not
\* exempt and fattenEnvironment() has raised.
C13_StillSingleAfterFix ==
    /\ LastScan("rescan_env")
    /\ NonExempt # {}
    /\ rpc = "aborted"

Codesigned == \E k \in DOMAIN invoked : invoked[k].cmd = "codesign"

NotarizeStarted ==
    \E k \in DOMAIN invoked, n \in DOMAIN NotarizeCommands :
        invoked[k].cmd = NotarizeCommands[n]

\* C14: in release() codesign is started only after a validation of the
\* built bundle has ended that found no single-architecture binary that is
\* not exempt; a validation that found one ends release() with an error and
\* neither codesign nor the notarization is started.
C14_ValidatedBeforeSigning ==
    /\ Codesigned =>
          /\ LastScan("scan_app")
          /\ scans[Len(scans)].success
          /\ NonExempt = {}
    /\ (LastScan("scan_app") /\ NonExempt # {}) =>
          /\ rpc = "aborted"
          /\ ~Codesigned
          /\ ~NotarizeStarted

\* C14 witness: codesign has been started for a path of a bundle whose
\* validation found a launcher stub only.
C14_SignedAfterValidation ==
    /\ rpc = "signing"
    /\ Codesigned
    /\ found # {}


(***************************************************************************)
(* Properties of signApp()                                                 *)
(***************************************************************************)

\* codesign has been started for the application bundle itself.
TopSigned ==
    \E k \in DOMAIN invoked :
        invoked[k].cmd = "codesign" /\ invoked[k].path = originalAppPath

\* C22: when codesign is started for the application bundle, the signing
\* unit of every signable path inside it has ended, none is in flight or
\* unstarted, and no codesign for a nested path is started after it.
C22_TopLevelSignedLast ==
    TopSigned =>
        /\ \A i \in DOMAIN work :
              work[i].kind = "signOneFile" /\ ustate[i] \in {"done", "failed"}
        /\ \A k, j \in DOMAIN invoked :
              (/\ invoked[k].cmd = "codesign"
               /\ invoked[k].path = originalAppPath
               /\ invoked[j].cmd = "codesign"
               /\ j # k) => j < k

\* C22 witness: the bundle is signed after two nested paths were, which
\* ended in the other order than they were started in.
C22_SignedAfterTwoNested ==
    /\ TopSigned
    /\ Len(work) = 2
    /\ completed = <<2, 1>>
    /\ \A i \in DOMAIN work : ustate[i] = "done"


(***************************************************************************)
(* Properties of the fused wheel's name                                    *)
(***************************************************************************)

\* The name of a wheel with the architecture field of its platform tags
\* changed from arm64 to universal2 and nothing else.
Universal2Name(left) ==
    [left EXCEPT !.plats =
        [i \in DOMAIN left.plats |->
            LET splitted == Split3(left.plats[i])
            IN  IF Len(splitted) = 4 /\ splitted[4] = <<"arm64">>
                  THEN SubSeq(left.plats[i], 1, 3) \o <<"universal2">>
                  ELSE left.plats[i]]]

\* C21: for every group that was fused, the wheel moved into fusedDir has
\* the name of the arm64 wheel with its architecture field changed to
\* universal2 and every other field as it was.
C21_OnlyArchitectureFieldChanged ==
    \A i \in DOMAIN work :
        (/\ work[i].kind = "fuseOne"
         /\ ustate[i] = "done"
         /\ work[i].fusor.universal2 = None)
            => Universal2Name(work[i].fusor.arm64) \in fusedDir

====
